---- MODULE Spec2Model ----
\* Graph construction of models/basic_files/dynamic_distraction_simple_soft.py.
\* Every function of the file builds symbolic tensors; a tensor is modelled by
\* the term that names the operation producing it and the tensors it reads.
EXTENDS Integers, Sequences, FiniteSets

VARIABLES
  entry,                   \* the function the caller invoked
  pc,                      \* position of the call in progress
  decoder_inputs,          \* per decoder input: is its size (shape[1]) known
  num_heads,
  attn_size_known,         \* attention_states.get_shape()[2].value is not None
  loop_function,           \* "None", or the kind of loop function given
  initial_state_attention,
  feed_previous,           \* "True", "False" (Python bools) or "Tensor"
  embedding,               \* "embedding" in the wrapper's embedding scope:
                           \* "absent", or present with a "match"ing or a
                           \* "mismatch"ing shape
  branch,                  \* which branch of cond is being built ("none" outside)
  true_branch,             \* outputs + state_list of the branch built first
  var_store,               \* variables created so far (variable_scope bookkeeping)
  i,                       \* loop index of the decoder
  prev, prev_attn, attns_state, state, outputs,   \* decoder locals
  step_log,                \* history of the decoder call in progress: per
                           \* executed step, what it read and wrote
  loop_calls,              \* history: the step numbers loop_function was called at
  logits, targets, weights,\* lengths of the three lists given to the loss
  softmax_loss_function,   \* TRUE iff a custom loss function is given
  average_across_timesteps, average_across_batch,
  log_perp_list,           \* loss terms computed so far
  err,                     \* exception raised ("None" if none)
  result                   \* value returned to the caller (<<"None">> if none)

vars == <<entry, pc, decoder_inputs, num_heads, attn_size_known, loop_function,
          initial_state_attention, feed_previous, embedding, branch,
          true_branch, var_store, i, prev, prev_attn, attns_state, state, outputs, step_log,
          loop_calls, logits, targets, weights, softmax_loss_function,
          average_across_timesteps, average_across_batch, log_perp_list,
          err, result>>

decoderVars == <<i, prev, prev_attn, attns_state, state, outputs, step_log,
                 loop_calls>>
lossVars == <<logits, targets, weights, softmax_loss_function,
              average_across_timesteps, average_across_batch, log_perp_list>>
argVars == <<entry, decoder_inputs, num_heads, attn_size_known,
             initial_state_attention, embedding>>

\* ---------------------------------------------------------------- bounds
MaxLen == 3        \* longest decoder_inputs / logits / targets / weights list
MaxHeads == 2      \* largest num_heads

\* ---------------------------------------------------------------- tensors
NoneT == <<"None">>
Zeros == <<"zeros">>
Eps == <<"eps">>
InitialStateT == <<"initial_state">>
Variable(name) == <<"variable", name>>
DecoderInput(k) == <<"decoder_inputs", k>>
\* Operations on the all-zero tensor are computed: the initial attentions
\* are zeros, and what the first steps subtract from them is decided by it.
MatMul(x, y) == IF x = Zeros THEN Zeros ELSE <<"matmul", x, y>>
Add(x, y) == IF x = Zeros THEN y ELSE IF y = Zeros THEN x ELSE <<"add", x, y>>
Sub(x, y) == IF y = Zeros THEN x ELSE <<"sub", x, y>>
Mul(x, y) == IF x = Zeros \/ y = Zeros THEN Zeros ELSE <<"mul", x, y>>
Div(x, y) == IF x = Zeros THEN Zeros ELSE <<"div", x, y>>
ReduceSum1(x) == IF x = Zeros THEN Zeros ELSE <<"reduce_sum", x>>
Sigmoid(x) == <<"sigmoid", x>>
Transpose(x) == IF x = Zeros THEN Zeros ELSE <<"transpose", x>>
Linear(args) == <<"linear", args>>
CellOutput(x, s) == <<"cell_output", x, s>>
CellState(x, s) == <<"cell_state", x, s>>
LoopFunctionT(p, k) == <<"loop_function", p, k>>

\* attention_query(query): the read of head 0 over attention_states_query.
AttentionQueryT(query) == <<"attention_query", query>>
\* attention(query): one read per head over attention_states.
AttentionT(query, nh) == [a \in 1..nh |-> <<"attention", a - 1, query>>]

\* ---------------------------------------------------------------- decoder
\* The argument checks at the head of the decoder.
NoInputsError == "ValueError: Must provide at least 1 input to attention decoder."
NoHeadsError == "ValueError: With less than 1 heads, use a non-attention decoder."
NoShapeError == "ValueError: Shape[2] of attention_states must be known"
InputSizeError == "ValueError: Could not infer input size from input"
ListIndexError == "IndexError: list index out of range"

CheckArgs_NoHeadsCheck(n, nh, known) ==
  IF n = 0 THEN NoInputsError
  ELSE IF ~known THEN NoShapeError
  ELSE "None"

CheckArgs(n, nh, known) ==
  IF n = 0 THEN NoInputsError
  ELSE IF nh < 1 THEN NoHeadsError
  ELSE IF ~known THEN NoShapeError
  ELSE "None"

HeadNames(name, nh) == { <<name, a>> : a \in 0..(nh - 1) }

\* Variables created by get_variable before the loop.
SetupVars(nh) ==
  { <<"Initial_State_W", 0>>, <<"Initial_State_Bias", 0>>,
    <<"gate_weight", 0>>, <<"gate_bias", 0>> }
  \cup HeadNames("AttnW_State", nh) \cup HeadNames("AttnV_State", nh)
  \cup HeadNames("AttnW_Query", nh) \cup HeadNames("AttnV_Query", nh)

\* Variables created by the linear() calls inside attention / attention_query.
AttentionVars(nh) ==
  HeadNames("Attention/Linear", nh) \cup HeadNames("Attention_Query/Linear", nh)

\* Variables created by the first pass through the loop body.
StepVars(nh) ==
  { <<"Linear", 0>>, <<"Cell", 0>>, <<"AttnOutputProjection/Linear", 0>> }
  \cup AttentionVars(nh)

DecoderVarNames == SetupVars(MaxHeads + 1) \cup StepVars(MaxHeads + 1)

ProjectedInitialState ==
  Add(MatMul(InitialStateT, Variable("Initial_State_W")),
      Variable("Initial_State_Bias"))

\* The input of step k (0-based): the loop function replaces it once a
\* previous output exists.
StepInput_IgnoreLoop(lf, p, k) == DecoderInput(k)

StepInput(lf, p, k) ==
  IF lf # "None" /\ p # NoneT THEN LoopFunctionT(p, k) ELSE DecoderInput(k)

\* Is the size of the input of step k known (input_size.value is not None).
InputSizeKnown(lf, p, k, sizes) ==
  IF lf # "None" /\ p # NoneT THEN lf # "unsized" ELSE sizes[k + 1]

\* The distraction step: a minus the gated, normalised projection on pa.
DistractionOf(a, pa) ==
  LET temp == Div(ReduceSum1(Mul(a, pa)), Add(ReduceSum1(Mul(pa, pa)), Eps))
      gate == Add(MatMul(pa, Variable("gate_weight")), Variable("gate_bias"))
      sig_gate == Sigmoid(Transpose(gate))
      temp1 == Transpose(Mul(sig_gate, temp))
  IN Sub(a, Mul(pa, temp1))

DistractOutput_NoPrevious(a, pa) == a

DistractOutput(a, pa) == IF pa # NoneT THEN DistractionOf(a, pa) ELSE a

\* What the step leaves in prev_attn for the next step.
NextPrevAttn_Attention(a, distract_output) == a

NextPrevAttn(a, distract_output) == distract_output

\* What the step leaves in prev for the next step.
NextPrev(lf, p, output) == IF lf # "None" THEN output ELSE p

AppendOutput_Prepend(outs, output) == <<output>> \o outs

AppendOutput(outs, output) == Append(outs, output)

\* Lines 209-368: argument checks, variable creation, initial attentions.
DecoderCall ==
  /\ pc = "decoder"
  /\ LET e == CheckArgs(Len(decoder_inputs), num_heads, attn_size_known)
         \* attention_query returns ds[0]
         noRead == initial_state_attention /\ num_heads = 0
         attns_query == AttentionQueryT(InitialStateT)
     IN IF e # "None"
        THEN /\ err' = e
             /\ pc' = "done"
             /\ UNCHANGED <<var_store, decoderVars>>
        ELSE IF noRead
        THEN /\ err' = ListIndexError
             /\ pc' = "done"
             /\ var_store' = var_store \cup SetupVars(num_heads)
             /\ UNCHANGED decoderVars
        ELSE /\ var_store' = var_store \cup SetupVars(num_heads)
                   \cup (IF initial_state_attention
                         THEN AttentionVars(num_heads) ELSE {})
             /\ state' = ProjectedInitialState
             /\ outputs' = <<>>
             /\ prev' = NoneT
             /\ prev_attn' = NoneT
             /\ attns_state' =
                  IF initial_state_attention
                  THEN AttentionT(<<InitialStateT, attns_query>>, num_heads)
                  ELSE [a \in 1..num_heads |-> Zeros]
             /\ i' = 0
             /\ step_log' = <<>>
             /\ loop_calls' = <<>>
             /\ pc' = "loop"
             /\ UNCHANGED err
  /\ UNCHANGED <<argVars, loop_function, feed_previous, branch, true_branch,
                 lossVars, result>>

\* Lines 370-432: one pass through the loop body.
DecoderStep ==
  /\ pc = "loop"
  /\ i < Len(decoder_inputs)
  /\ LET useLoop == loop_function # "None" /\ prev # NoneT
         inp == StepInput(loop_function, prev, i)
         a == attns_state[1]
         distract_output == DistractOutput(a, prev_attn)
         x == Linear(<<inp, distract_output>>)
         cell_output == CellOutput(x, state)
         new_state == CellState(x, state)
         attns_query == AttentionQueryT(new_state)
         new_attns == AttentionT(<<new_state, attns_query>>, num_heads)
         output == Linear(<<cell_output>> \o new_attns)
     IN /\ loop_calls' = IF useLoop THEN Append(loop_calls, i) ELSE loop_calls
        /\ IF ~InputSizeKnown(loop_function, prev, i, decoder_inputs)
           THEN /\ err' = InputSizeError
                /\ pc' = "done"
                /\ UNCHANGED <<var_store, i, prev, prev_attn, attns_state,
                               state, outputs, step_log>>
           ELSE IF Len(attns_state) = 0
           THEN /\ err' = ListIndexError
                /\ pc' = "done"
                /\ UNCHANGED <<var_store, i, prev, prev_attn, attns_state,
                               state, outputs, step_log>>
           ELSE /\ var_store' = var_store \cup StepVars(num_heads)
                /\ state' = new_state
                /\ attns_state' = new_attns
                /\ prev' = NextPrev(loop_function, prev, output)
                /\ prev_attn' = NextPrevAttn(a, distract_output)
                /\ outputs' = AppendOutput(outputs, output)
                /\ step_log' = Append(step_log,
                     [i |-> i, inp |-> inp, a |-> a, prev_attn |-> prev_attn,
                      distract_output |-> distract_output, output |-> output])
                /\ i' = i + 1
                /\ UNCHANGED <<err, pc>>
  /\ UNCHANGED <<argVars, loop_function, feed_previous, branch, true_branch,
                 lossVars, result>>

\* cond(pred, fn1, fn2) merges the two branches' tensors pairwise.
CondT(t, f) == [k \in 1..Len(t) |-> <<"cond", t[k], f[k]>>]

\* ------------------------------------------------------- argument binding
\* Python binds a call's positional and keyword arguments to the parameters
\* of the callee and raises TypeError when that fails.
UnexpectedKeywordError == "TypeError: got an unexpected keyword argument"
MissingArgumentError == "TypeError: missing required argument"
MultipleValuesError == "TypeError: got multiple values for argument"

Range(seq) == { seq[k] : k \in 1..Len(seq) }

Bind(params, required, npos, kws) ==
  LET positional == { params[k] : k \in 1..npos }
  IN IF ~(kws \subseteq Range(params)) THEN UnexpectedKeywordError
     ELSE IF kws \cap positional # {} THEN MultipleValuesError
     ELSE IF ~(required \subseteq (positional \cup kws)) THEN MissingArgumentError
     ELSE "None"

DecoderParams ==
  <<"decoder_inputs", "initial_state", "distract_initial_state",
    "attention_states", "attention_states_query", "cell", "distraction_cell",
    "output_size", "num_heads", "loop_function", "dtype", "scope",
    "initial_state_attention">>
DecoderRequired == { DecoderParams[k] : k \in 1..7 }

WrapperParams ==
  <<"decoder_inputs", "initial_state", "distract_initial_state",
    "attention_states", "attention_states_query", "cell_encoder",
    "distraction_cell", "num_symbols", "embedding_size", "num_heads",
    "output_size", "output_projection", "feed_previous",
    "update_embedding_for_previous", "embedding_scope", "dtype", "scope",
    "initial_state_attention">>
WrapperRequired == { WrapperParams[k] : k \in 1..9 }

\* The keywords of the wrapper's call of the decoder (one positional before).
WrapperCallKeywords ==
  { "initial_state", "attention_states_query", "attention_states", "cell",
    "distract_initial_state", "distraction_cell", "output_size", "num_heads",
    "loop_function", "initial_state_attention" }

\* The keywords of seq2seq's call of the wrapper when feed_previous is a
\* Python bool (one positional before).
BoolCallKeywords ==
  { "initial_state", "attention_state", "attention_states_query",
    "cell_encoder", "num_symbols", "embedding_size", "distract_initial_state",
    "num_heads", "output_size", "output_projection", "feed_previous",
    "embedding_scope", "initial_state_attention" }

\* The keywords of the call of the wrapper inside decoder(feed_previous_bool).
CondCallKeywords ==
  { "initial_state", "attention_states", "attention_states_query",
    "cell_encoder", "num_symbols", "embedding_size", "distract_initial_state",
    "distraction_cell", "num_heads", "output_size", "output_projection",
    "feed_previous", "embedding_scope", "update_embedding_for_previous",
    "initial_state_attention" }

\* ---------------------------------------------------------------- wrapper
NoVariableError == "ValueError: Variable embedding does not exist"
VariableShapeError == "ValueError: Trying to share variable embedding, but specified shape and found shape differ"

\* get_variable("embedding", [num_symbols, embedding_size]) under reuse=True.
GetEmbedding(e) ==
  IF e = "absent" THEN NoVariableError
  ELSE IF e = "mismatch" THEN VariableShapeError
  ELSE "None"

\* The loop function the wrapper hands to the decoder.
WrapperLoopFunction(fp) == IF fp = "True" THEN "sized" ELSE "None"

\* Lines 498-530 up to the decoder's first statement.
WrapperCall ==
  /\ pc = "wrapper"
  /\ LET e == GetEmbedding(embedding)
         b == Bind(DecoderParams, DecoderRequired, 1, WrapperCallKeywords)
     IN IF e # "None"
        THEN /\ err' = e
             /\ pc' = "done"
             /\ UNCHANGED loop_function
        ELSE IF b # "None"
        THEN /\ err' = b
             /\ pc' = "done"
             /\ UNCHANGED loop_function
        ELSE /\ loop_function' =
                  WrapperLoopFunction(IF branch = "none" THEN feed_previous
                                      ELSE branch)
             /\ pc' = "decoder"
             /\ UNCHANGED err
  /\ UNCHANGED <<argVars, feed_previous, branch, true_branch, var_store,
                 decoderVars, lossVars, result>>

\* ---------------------------------------------------------------- seq2seq
Seq2SeqVars == { <<"embedding", 0>>, <<"Encoder_Cell", 0>>, <<"Query_Cell", 0>> }

\* Lines 591-664 and 698-700: the encoder, then the call of the wrapper.
Seq2SeqCall ==
  /\ pc = "seq2seq"
  /\ var_store' = var_store \cup Seq2SeqVars
  /\ IF feed_previous \in {"True", "False"}
     THEN LET b == Bind(WrapperParams, WrapperRequired, 1, BoolCallKeywords)
          IN IF b # "None"
             THEN /\ err' = b
                  /\ pc' = "done"
                  /\ UNCHANGED branch
             ELSE /\ pc' = "wrapper"
                  /\ UNCHANGED <<err, branch>>
     ELSE LET b == Bind(WrapperParams, WrapperRequired, 1, CondCallKeywords)
          IN IF b # "None"
             THEN /\ err' = b
                  /\ pc' = "done"
                  /\ UNCHANGED branch
             ELSE /\ pc' = "wrapper"
                  /\ branch' = "True"
                  /\ UNCHANGED err
  /\ UNCHANGED <<argVars, loop_function, feed_previous, true_branch,
                 decoderVars, lossVars, result>>

\* Line 434 and what the callers do with the value: the wrapper returns it
\* unchanged; decoder(feed_previous_bool) returns outputs + state_list, and
\* seq2seq slices the merged list at len(decoder_inputs) (lines 692-707).
DecoderReturn ==
  /\ pc = "loop"
  /\ i = Len(decoder_inputs)
  /\ IF branch = "none"
     THEN /\ result' = <<outputs, state>>
          /\ pc' = "done"
          /\ UNCHANGED <<branch, true_branch, step_log, loop_calls>>
     ELSE IF branch = "True"
     THEN /\ true_branch' = outputs \o <<state>>
          /\ branch' = "False"
          /\ pc' = "wrapper"
          /\ step_log' = <<>>
          /\ loop_calls' = <<>>
          /\ UNCHANGED result
     ELSE LET outputs_and_state == CondT(true_branch, outputs \o <<state>>)
              outputs_len == Len(decoder_inputs)
              state_list == SubSeq(outputs_and_state, outputs_len + 1,
                                   Len(outputs_and_state))
          IN /\ result' = <<SubSeq(outputs_and_state, 1, outputs_len),
                            state_list[1]>>
             /\ pc' = "done"
             /\ UNCHANGED <<branch, true_branch, step_log, loop_calls>>
  /\ UNCHANGED <<argVars, loop_function, feed_previous, var_store,
                 i, prev, prev_attn, attns_state, state, outputs,
                 lossVars, err>>

\* ------------------------------------------------------------------- loss
LengthsError == "ValueError: Lengths of logits, weights, and targets must be the same"
AddNError == "ValueError: inputs must be a list of at least one Tensor"

Logit(k) == <<"logits", k>>
Target(k) == <<"targets", k>>
Weight(k) == <<"weights", k>>
AddN(list) == <<"add_n", list>>
Tiny == <<"1e-12">>
Min(x, y) == IF x < y THEN x ELSE y

LengthsDiffer_TargetsOnly(l, t, w) == t # l

\* The guard of sequence_loss_by_example.
LengthsDiffer(l, t, w) == t # l \/ w # l

Crossent(slf, k) ==
  IF slf THEN <<"softmax_loss_function", Logit(k), Target(k)>>
  ELSE <<"sparse_softmax_cross_entropy_with_logits", Logit(k),
         <<"reshape", Target(k)>>>>

\* sequence_loss_by_example on lists of l logits, t targets and w weights:
\* the exception raised, the loss terms computed, the value returned.
LossByExample(l, t, w, slf, avg) ==
  LET n == Min(l, Min(t, w))       \* zip stops at the shortest list
      terms == [k \in 1..n |-> Mul(Crossent(slf, k - 1), Weight(k - 1))]
      log_perps == AddN(terms)
      total_size == Add(AddN([k \in 1..w |-> Weight(k - 1)]), Tiny)
  IN IF LengthsDiffer(l, t, w)
     THEN [err |-> LengthsError, terms |-> <<>>, value |-> NoneT]
     ELSE IF n = 0
     THEN [err |-> AddNError, terms |-> terms, value |-> NoneT]
     ELSE [err |-> "None", terms |-> terms,
           value |-> IF avg THEN Div(log_perps, total_size) ELSE log_perps]

SequenceLossByExample ==
  /\ pc = "sequence_loss_by_example"
  /\ LET r == LossByExample(logits, targets, weights, softmax_loss_function,
                            average_across_timesteps)
     IN /\ err' = r.err
        /\ log_perp_list' = r.terms
        /\ result' = r.value
  /\ pc' = "done"
  /\ UNCHANGED <<argVars, loop_function, feed_previous, branch, true_branch,
                 var_store, decoderVars, logits, targets, weights,
                 softmax_loss_function, average_across_timesteps,
                 average_across_batch>>

\* sequence_loss: the per-example loss, summed and divided by the batch size.
SequenceLoss ==
  /\ pc = "sequence_loss"
  /\ LET r == LossByExample(logits, targets, weights, softmax_loss_function,
                            average_across_timesteps)
         cost == ReduceSum1(r.value)
         batch_size == <<"shape", Target(0)>>
     IN /\ log_perp_list' = r.terms
        /\ IF r.err # "None"
           THEN err' = r.err /\ UNCHANGED result
           ELSE IF average_across_batch /\ targets = 0
           THEN err' = ListIndexError /\ UNCHANGED result
           ELSE /\ result' = IF average_across_batch
                             THEN Div(cost, <<"cast", batch_size>>) ELSE cost
                /\ UNCHANGED err
  /\ pc' = "done"
  /\ UNCHANGED <<argVars, loop_function, feed_previous, branch, true_branch,
                 var_store, decoderVars, logits, targets, weights,
                 softmax_loss_function, average_across_timesteps,
                 average_across_batch>>

\* ------------------------------------------------------------ the callers
SizeLists == UNION { [1..n -> BOOLEAN] : n \in 0..MaxLen }
AllSized == { [k \in 1..n |-> TRUE] : n \in 0..MaxLen }

IdleDecoder ==
  /\ i = 0 /\ prev = NoneT /\ prev_attn = NoneT /\ attns_state = <<>>
  /\ state = NoneT /\ outputs = <<>> /\ step_log = <<>> /\ loop_calls = <<>>
  /\ var_store = {} /\ branch = "none" /\ true_branch = <<>>
  /\ err = "None" /\ result = NoneT

IdleLoss ==
  /\ logits = 0 /\ targets = 0 /\ weights = 0 /\ log_perp_list = <<>>
  /\ softmax_loss_function = FALSE /\ average_across_timesteps = TRUE
  /\ average_across_batch = TRUE

\* A caller builds a decoder directly, with any arguments.
InitDecoder ==
  /\ entry = "decoder"
  /\ decoder_inputs \in SizeLists
  /\ num_heads \in 0..MaxHeads
  /\ attn_size_known \in BOOLEAN
  /\ loop_function \in {"None", "sized", "unsized"}
  /\ initial_state_attention \in BOOLEAN
  /\ feed_previous = "False" /\ embedding = "absent"
  /\ IdleDecoder /\ IdleLoss

\* A caller builds the embedding wrapper: the embedded inputs are sized.
InitWrapper ==
  /\ entry = "wrapper"
  /\ decoder_inputs \in AllSized
  /\ num_heads \in 0..MaxHeads
  /\ attn_size_known \in BOOLEAN
  /\ feed_previous \in {"True", "False"}
  /\ embedding \in {"absent", "match", "mismatch"}
  /\ initial_state_attention \in BOOLEAN
  /\ loop_function = "None"
  /\ IdleDecoder /\ IdleLoss

\* A caller builds the whole model: the attention states are reshaped to a
\* static size, and the embedding seq2seq creates is the one the wrapper
\* shares ("match" iff the encoder and decoder vocabularies have one size).
InitSeq2Seq ==
  /\ entry = "seq2seq"
  /\ decoder_inputs \in AllSized
  /\ num_heads \in 0..MaxHeads
  /\ attn_size_known = TRUE
  /\ feed_previous \in {"True", "False", "Tensor"}
  /\ embedding \in {"match", "mismatch"}
  /\ initial_state_attention \in BOOLEAN
  /\ loop_function = "None"
  /\ IdleDecoder /\ IdleLoss

InitLoss ==
  /\ entry \in {"sequence_loss_by_example", "sequence_loss"}
  /\ logits \in 0..MaxLen /\ targets \in 0..MaxLen /\ weights \in 0..MaxLen
  /\ softmax_loss_function \in BOOLEAN
  /\ average_across_timesteps \in BOOLEAN
  /\ average_across_batch \in BOOLEAN
  /\ log_perp_list = <<>>
  /\ decoder_inputs = <<>> /\ num_heads = 1 /\ attn_size_known = TRUE
  /\ loop_function = "None" /\ initial_state_attention = FALSE
  /\ feed_previous = "False" /\ embedding = "absent"
  /\ IdleDecoder

Init ==
  /\ (InitDecoder \/ InitWrapper \/ InitSeq2Seq \/ InitLoss)
  /\ pc = entry

Next ==
  \/ DecoderCall
  \/ DecoderStep
  \/ DecoderReturn
  \/ WrapperCall
  \/ Seq2SeqCall
  \/ SequenceLossByExample
  \/ SequenceLoss

Spec == Init /\ [][Next]_vars

\* ------------------------------------------------------------- properties
\* The calls that reach the decoder with the caller's own arguments.
ReachesDecoder ==
  entry = "decoder" \/ (entry = "wrapper" /\ embedding = "match")

AllInputsSized ==
  /\ \A k \in 1..Len(decoder_inputs) : decoder_inputs[k]
  /\ loop_function # "unsized"

\* C1: for non-empty decoder_inputs of length n, num_heads >= 1, a known
\* attention feature size and inferable input sizes, the decoder returns an
\* outputs list of exactly n elements, outputs[i] being the output produced
\* at step i, with or without a loop function.
C1_OutputsInStepOrder ==
  ( /\ ReachesDecoder /\ pc = "done"
    /\ Len(decoder_inputs) >= 1 /\ num_heads >= 1 /\ attn_size_known
    /\ AllInputsSized )
  => /\ err = "None"
     /\ result # NoneT
     /\ Len(result[1]) = Len(decoder_inputs)
     /\ Len(step_log) = Len(decoder_inputs)
     /\ \A k \in 1..Len(decoder_inputs) :
          /\ step_log[k].i = k - 1
          /\ result[1][k] = step_log[k].output

C1_Witness ==
  /\ entry = "decoder" /\ pc = "done" /\ err = "None"
  /\ Len(decoder_inputs) = MaxLen /\ loop_function = "sized"
  /\ Len(result[1]) = MaxLen

\* C2: with a Python boolean feed_previous and valid inputs, seq2seq
\* completes its call of the wrapper and returns (outputs, state) with as
\* many outputs as decoder_inputs.
C2_BoolFeedPreviousReturns ==
  ( /\ entry = "seq2seq" /\ pc = "done"
    /\ feed_previous \in {"True", "False"}
    /\ Len(decoder_inputs) >= 1 /\ num_heads >= 1 /\ embedding = "match" )
  => /\ err = "None"
     /\ result # NoneT
     /\ Len(result[1]) = Len(decoder_inputs)

\* C3: with a loop function, step 0 reads decoder_inputs[0] and every step
\* i >= 1 reads loop_function(output of step i-1, i); the loop function is
\* never called at step 0. Without one, step i reads decoder_inputs[i].
C3_StepInputs ==
  (pc \in {"loop", "done"}) =>
  /\ \A k \in 1..Len(step_log) :
       step_log[k].inp =
         IF loop_function # "None" /\ k > 1
         THEN LoopFunctionT(step_log[k - 1].output, k - 1)
         ELSE DecoderInput(k - 1)
  /\ \A j \in 1..Len(loop_calls) : loop_calls[j] >= 1
  /\ (loop_function = "None" => loop_calls = <<>>)

C3_Witness ==
  /\ loop_function = "sized" /\ Len(step_log) = MaxLen
  /\ Len(loop_calls) = MaxLen - 1

\* C4: the decoder raises ValueError for empty decoder_inputs, num_heads < 1
\* or an unknown third dimension of attention_states, before it creates any
\* variable and before it produces any output.
C4_ArgumentErrorsFirst ==
  ( /\ ReachesDecoder /\ pc = "done"
    /\ (Len(decoder_inputs) = 0 \/ num_heads < 1 \/ ~attn_size_known) )
  => /\ err \in {NoInputsError, NoHeadsError, NoShapeError}
     /\ var_store \cap DecoderVarNames = {}
     /\ outputs = <<>> /\ step_log = <<>>
     /\ result = NoneT

C4_Witness ==
  /\ entry = "decoder" /\ pc = "done" /\ err = NoHeadsError
  /\ Len(decoder_inputs) = MaxLen /\ attn_size_known
  /\ initial_state_attention

\* C5: sequence_loss_by_example raises its ValueError exactly when targets
\* or weights differ in length from logits, before any loss term is
\* computed; with three lists of one length it does not raise it.
C5_LengthsErrorExactly ==
  (entry \in {"sequence_loss_by_example", "sequence_loss"} /\ pc = "done") =>
  /\ (err = LengthsError) <=> (targets # logits \/ weights # logits)
  /\ (err = LengthsError => log_perp_list = <<>> /\ result = NoneT)

C5_Witness ==
  /\ entry = "sequence_loss_by_example" /\ pc = "done"
  /\ err = LengthsError /\ targets = logits /\ weights # logits
  /\ logits > 0 /\ weights > 0

\* The vector merged with the input of the k-th executed step.
MergedWithInput(k) ==
  step_log[k].output[2][1][2] =
    Linear(<<step_log[k].inp, step_log[k].distract_output>>)

\* C6 as stated: at every step i >= 1 the vector merged with the step input
\* is the current attention vector minus the gated, normalised projection on
\* the attention vector that was current at step i-1; at step 0 it is the
\* attention vector itself.
C6_ProjectionOnPreviousAttention ==
  \A k \in 1..Len(step_log) :
    /\ MergedWithInput(k)
    /\ step_log[k].distract_output =
         IF k = 1 THEN step_log[k].a
         ELSE DistractionOf(step_log[k].a, step_log[k - 1].a)

\* C6 amended: at every step i >= 1 the vector merged with the step input is
\* the current attention vector minus the gated, normalised projection on the
\* vector merged at step i-1 (its distract_output), which is the attention
\* vector of step i-1 only for i = 1; at step 0 it is the attention vector
\* itself.
C6_ProjectionOnPreviousDistractOutput ==
  \A k \in 1..Len(step_log) :
    /\ MergedWithInput(k)
    /\ step_log[k].distract_output =
         IF k = 1 THEN step_log[k].a
         ELSE DistractionOf(step_log[k].a, step_log[k - 1].distract_output)
    /\ (k = 2 => step_log[k].distract_output =
                   DistractionOf(step_log[k].a, step_log[k - 1].a))

C6_Witness ==
  /\ Len(step_log) = MaxLen /\ initial_state_attention
  /\ step_log[MaxLen].prev_attn # step_log[MaxLen - 1].a

====
